---- MODULE Spec2Model ----
(***************************************************************************)
(* Model of the plugin instance app manager                                *)
(* (chris_backend/plugininstances/services/manager.py): submission of a    *)
(* plugin instance's app to the remote service, and reconciliation of the  *)
(* remote execution status into the Job record.                            *)
(*                                                                         *)
(* Python text is a sequence of one-character strings, so that strip,      *)
(* split/join, concatenation and substring search are computed, not        *)
(* assumed.                                                                *)
(***************************************************************************)
EXTENDS Integers, Sequences, FiniteSets, TLC

\* ------------------------------------------------------------------ bounds

\* the celery tasks the scheduler may have in flight for one Job
Workers == {"w1", "w2"}
\* reconciliations started in one behaviour of Spec
MaxRuns == 3
\* entries of a submitted parameter dictionary
MaxParams == 2

\* ------------------------------------------------------------------ text

Whitespace == {" ", "\t", "\n"}

\* ''.join(s.split()): every whitespace character removed
RemoveWhitespace(s) == SelectSeq(s, LAMBDA c : c \notin Whitespace)

\* sub in s
Contains(s, sub) ==
    \E i \in 1..(Len(s) - Len(sub) + 1) : SubSeq(s, i, i + Len(sub) - 1) = sub

\* s.lstrip(chars)
LStrip(s, chars) ==
    LET keep == {i \in 1..Len(s) : s[i] \notin chars}
    IN  IF keep = {} THEN <<>>
        ELSE SubSeq(s, CHOOSE i \in keep : \A j \in keep : i <= j, Len(s))

\* s.rstrip(chars)
RStrip(s, chars) ==
    LET keep == {i \in 1..Len(s) : s[i] \notin chars}
    IN  IF keep = {} THEN <<>>
        ELSE SubSeq(s, 1, CHOOSE i \in keep : \A j \in keep : i >= j)

\* s.strip()
Strip(s) == RStrip(LStrip(s, Whitespace), Whitespace)

\* s.startswith(prefix)
StartsWith(s, prefix) ==
    Len(prefix) <= Len(s) /\ SubSeq(s, 1, Len(prefix)) = prefix

\* os.path.join(a, b)
PathJoin(a, b) ==
    IF b # <<>> /\ b[1] = "/" THEN b
    ELSE IF a = <<>> \/ a[Len(a)] = "/" THEN a \o b
    ELSE a \o <<"/">> \o b

\* os.path.dirname(p)
Dirname(p) ==
    LET slashes == {i \in 1..Len(p) : p[i] = "/"}
    IN  IF slashes = {} THEN <<>>
        ELSE LET head == SubSeq(p, 1, CHOOSE i \in slashes : \A j \in slashes : i >= j)
             IN  IF \A i \in 1..Len(head) : head[i] = "/" THEN head
                 ELSE RStrip(head, {"/"})

\* sep.join(parts)
RECURSIVE StrJoin(_, _)
StrJoin(sep, parts) ==
    IF parts = <<>> THEN <<>>
    ELSE IF Len(parts) = 1 THEN parts[1]
    ELSE parts[1] \o sep \o StrJoin(sep, Tail(parts))

Digits == <<"0", "1", "2", "3", "4", "5", "6", "7", "8", "9">>

\* str(n) of a natural number
RECURSIVE IntToStr(_)
IntToStr(n) ==
    IF n < 10 THEN <<Digits[n + 1]>>
    ELSE IntToStr(n \div 10) \o <<Digits[(n % 10) + 1]>>

S_True == <<"T", "r", "u", "e">>
S_False == <<"F", "a", "l", "s", "e">>
S_started == <<"s", "t", "a", "r", "t", "e", "d">>
S_finishedSuccessfully ==
    <<"f", "i", "n", "i", "s", "h", "e", "d", "S", "u", "c", "c", "e", "s", "s",
      "f", "u", "l", "l", "y">>
S_finishedWithError ==
    <<"f", "i", "n", "i", "s", "h", "e", "d", "W", "i", "t", "h", "E", "r", "r",
      "o", "r">>
S_pushPath == <<"p", "u", "s", "h", "P", "a", "t", "h">>
S_compute == <<"c", "o", "m", "p", "u", "t", "e">>
S_submit == <<"s", "u", "b", "m", "i", "t">>
S_return == <<"r", "e", "t", "u", "r", "n">>
S_pullPath == <<"p", "u", "l", "l", "P", "a", "t", "h">>
S_swiftPut == <<"s", "w", "i", "f", "t", "P", "u", "t">>
S_swiftPutTrue == S_swiftPut \o <<":">> \o S_True
S_share_incoming ==
    <<"/", "s", "h", "a", "r", "e", "/", "i", "n", "c", "o", "m", "i", "n",
      "g">>
S_share_outgoing ==
    <<"/", "s", "h", "a", "r", "e", "/", "o", "u", "t", "g", "o", "i", "n",
      "g">>
S_saveinputmeta ==
    <<"-", "-", "s", "a", "v", "e", "i", "n", "p", "u", "t", "m", "e", "t",
      "a">>
S_saveoutputmeta ==
    <<"-", "-", "s", "a", "v", "e", "o", "u", "t", "p", "u", "t", "m", "e",
      "t", "a">>
S_chris_jid == <<"c", "h", "r", "i", "s", "-", "j", "i", "d", "-">>
S_data == <<"d", "a", "t", "a">>
S_squashInvalidFile ==
    <<"s", "q", "u", "a", "s", "h", "I", "n", "v", "a", "l", "i", "d", "D",
      "i", "r", "/", "s", "q", "u", "a", "s", "h", "I", "n", "v", "a", "l",
      "i", "d", "D", "i", "r", ".", "t", "x", "t">>
S_squashInvalidMsg ==
    <<"P", "a", "t", "h", " ", "s", "p", "e", "c", "i", "f", "i", "e", "d",
      " ", "i", "n", " ", "o", "b", "j", "e", "c", "t", " ", "s", "t", "o",
      "r", "a", "g", "e", " ", "d", "o", "e", "s", " ", "n", "o", "t", " ",
      "e", "x", "i", "s", "t", "!">>
S_squashEmptyFile ==
    <<"s", "q", "u", "a", "s", "h", "E", "m", "p", "t", "y", "D", "i", "r",
      "/", "s", "q", "u", "a", "s", "h", "E", "m", "p", "t", "y", "D", "i",
      "r", ".", "t", "x", "t">>
S_squashEmptyMsg ==
    <<"E", "m", "p", "t", "y", " ", "i", "n", "p", "u", "t", " ", "d", "i",
      "r", ".">>
S_home ==
    <<"/", "h", "o", "m", "e", "/", "l", "o", "c", "a", "l", "u", "s", "e",
      "r">>
S_feed == <<"f", "e", "e", "d", "_">>
S_foo == <<"f", "o", "o">>
S_simplefsapp == <<"s", "i", "m", "p", "l", "e", "f", "s", "a", "p", "p">>
S_simpledsapp == <<"s", "i", "m", "p", "l", "e", "d", "s", "a", "p", "p">>
S_fs_selfpath ==
    <<"/", "u", "s", "r", "/", "s", "r", "c", "/", "s", "i", "m", "p", "l",
      "e", "f", "s", "a", "p", "p">>
S_fs_selfexec ==
    <<"s", "i", "m", "p", "l", "e", "f", "s", "a", "p", "p", ".", "p", "y">>
S_ds_selfpath ==
    <<"/", "u", "s", "r", "/", "s", "r", "c", "/", "s", "i", "m", "p", "l",
      "e", "d", "s", "a", "p", "p">>
S_ds_selfexec ==
    <<"s", "i", "m", "p", "l", "e", "d", "s", "a", "p", "p", ".", "p", "y">>
S_python3 == <<"p", "y", "t", "h", "o", "n", "3">>
S_flag_dir == <<"-", "-", "d", "i", "r">>
S_flag_aux == <<"-", "-", "a", "u", "x">>
S_flag_ext == <<"-", "-", "e", "x", "t">>
S_flag_v == <<"-", "v">>
S_flag_q == <<"-", "q">>
S_flag_prefix == <<"-", "-", "p", "r", "e", "f", "i", "x">>
S_uploads == <<"f", "o", "o", "/", "u", "p", "l", "o", "a", "d", "s">>
S_uploads_file ==
    <<"f", "o", "o", "/", "u", "p", "l", "o", "a", "d", "s", "/", "f", "i",
      "l", "e", "1", ".", "t", "x", "t">>
S_missing == <<"f", "o", "o", "/", "m", "i", "s", "s", "i", "n", "g">>
S_dotslash == <<".", "/">>
S_noisy_uploads ==
    <<" ", ".", "f", "o", "o", "/", "u", "p", "l", "o", "a", "d", "s", " ">>
S_lolo == <<"l", "o", "l", "o">>

\* ------------------------------------------------------------ Python values

\* a JSON value of a status field: a boolean or a text
PyBool(b) == [t |-> "bool", b |-> b, s |-> <<>>]
PyText(s) == [t |-> "str", b |-> FALSE, s |-> s]

\* str(v)
PyStr(v) == IF v.t = "bool" THEN (IF v.b THEN S_True ELSE S_False) ELSE v.s

\* bool(v): the truth value of v
PyTruthy(v) == IF v.t = "bool" THEN v.b ELSE v.s # <<>>

\* json.dumps(x): the serialized text of x
JsonDumps(x) == <<"json", x>>

\* base64(zlib(json.dumps(x).encode('utf-8'))).decode('ascii')
json_zipToStr(x) == <<"b64", <<"zlib", <<"utf-8", JsonDumps(x)>>>>>>

\* Python's None
PyNone == [t |-> "none", b |-> FALSE, s |-> <<>>]

\* the call has not returned
NotReturned == [t |-> "unset", b |-> FALSE, s |-> <<>>]

\* -------------------------------------------------------- remote responses

\* a status response of the remote service: the per-phase summary and the
\* detailed jobOperation with the store-put detail substructure
StatusResponse(push, submit, ret, pull, put, detail) ==
    [isDict |-> TRUE,
     jobOperationSummary |->
        [pushPath |-> [status |-> push],
         compute |-> [submit |-> [status |-> submit],
                      return |-> [status |-> ret]],
         pullPath |-> [status |-> pull],
         swiftPut |-> [status |-> put]],
     jobOperation |-> [info |-> [swiftPut |-> detail]]]

\* what json.loads yields when pfurl could not reach the service: a text
RefusedResponse ==
    [isDict |-> FALSE,
     text |-> <<"C", "o", "n", "n", "e", "c", "t", "i", "o", "n", " ",
                "r", "e", "f", "u", "s", "e", "d">>]

R_running ==
    StatusResponse(PyBool(TRUE), PyBool(TRUE), PyText(S_started),
                   PyBool(FALSE), PyBool(FALSE), [filesPushed |-> "none"])
R_error ==
    StatusResponse(PyBool(TRUE), PyBool(TRUE), PyText(S_finishedWithError),
                   PyBool(FALSE), PyBool(FALSE), [filesPushed |-> "none"])
R_errorPut ==
    StatusResponse(PyBool(TRUE), PyBool(TRUE), PyText(S_finishedWithError),
                   PyBool(TRUE), PyBool(TRUE), [filesPushed |-> "one"])
R_spaced ==
    StatusResponse(PyBool(TRUE), PyBool(TRUE), PyText(S_finishedSuccessfully),
                   PyBool(TRUE), PyText(<<" ", "T", "r", "u", "e", " ">>),
                   [filesPushed |-> "three"])
\* the compute-return status comes with whitespace inside the text
R_embedded ==
    StatusResponse(PyBool(TRUE), PyBool(TRUE),
                   PyText(<<"f", "i", "n", "i", "s", "h", "e", "d", " ", "W",
                            "i", "t", "h", "\t", "E", "r", "r", "o", "r",
                            "\n">>),
                   PyBool(FALSE), PyBool(FALSE), [filesPushed |-> "none"])
\* every phase reports finishedSuccessfully / True
R_success ==
    StatusResponse(PyBool(TRUE), PyBool(TRUE), PyText(S_finishedSuccessfully),
                   PyBool(TRUE), PyBool(TRUE), [filesPushed |-> "two"])

\* the answers of the remote service once the job has ended
FinalResponses == {R_success, R_error, R_errorPut, R_spaced, R_embedded}

\* the structured answers of the remote service
DictResponses == {R_running} \cup FinalResponses

\* what call_app_service can return
Responses == DictResponses \cup {RefusedResponse}

\* ------------------------------------------------------------------ state

VARIABLES
    db,          \* the Job record as stored in the Job Store
    remote,      \* what the remote service answers to a status query now
    pc,          \* each worker's position in check_plugin_instance_app_exec_status
    inst,        \* each worker's in-memory plugin instance (self.c_plugin_inst)
    resp,        \* each worker's d_response
    respStatus,  \* each worker's str_responseStatus
    errInvoked,  \* whether the worker's current call ran handle_app_remote_error
    registered,  \* the swiftState of every register_output_files call, in order
    endWrites,   \* how many times end_date was assigned
    now,         \* timezone.now()
    runs,        \* reconciliations started
    cancelSeen,  \* whether the Job was ever cancelled
    job,         \* the plugin instance handed to the manager
    params,      \* the submitted parameter_dict, in its iteration order
    swift,       \* the objects of the Blob Store
    swiftCalls,  \* the Blob Store calls of the submission and their outcomes
    sent,        \* the envelopes sent to the remote service by the submission
    msg,         \* each worker's d_msg, the query of its current call
    errMsgs,     \* the queries sent by handle_app_remote_error, in order
    errLog,      \* the deepVal texts handle_app_remote_error logged, in order
    errResps,    \* the responses handle_app_remote_error received, in order
    zipPaths,    \* the swift_paths handed to create_zip_file
    zipEntries,  \* the entries written to the job's zip file, in order
    zipState,    \* how create_zip_file ended
    zipLog,      \* the Blob Store calls of create_zip_file and their outcomes
    zipReturn    \* what create_zip_file returned

\* the variables of the submission
subVars == <<job, params, swift, swiftCalls, sent>>

\* the variables of the reconciliation
recVars == <<db, remote, pc, inst, resp, respStatus, errInvoked, registered,
             endWrites, now, runs, cancelSeen, msg>>

\* the variables of the Error Collector
errVars == <<errMsgs, errLog, errResps>>

\* the variables of the Archive Builder
zipVars == <<zipPaths, zipEntries, zipState, zipLog, zipReturn>>

auxVars == <<errVars, zipVars>>

vars == <<recVars, subVars, auxVars>>

\* the Job's terminal status values
TerminalStatus == {"finishedSuccessfully", "finishedWithError", "cancelled"}

\* a new plugin instance: status 'started', no end date, empty summary and raw
NewInstance == [status |-> "started", end_date |-> {}, summary |-> <<>>, raw |-> <<>>]

NoResponse == [isDict |-> FALSE, text |-> <<>>]

\* ------------------------------------------------- status normalisation

\* StatusToken with the status text taken as it comes
StatusToken_KeepsWhitespace(label, value) ==
    label \o <<":">> \o PyStr(value) \o <<";">>

\* one '<phase>:<status>;' token of the normalized status string
StatusToken(label, value) ==
    label \o <<":">> \o RemoveWhitespace(PyStr(value)) \o <<";">>

\* NormalizedStatus with the loop ending before 'swiftPut'
NormalizedStatus_NoSwiftPut(d_response) ==
    LET sum == d_response.jobOperationSummary IN
       StatusToken(S_pushPath, sum.pushPath.status)
    \o StatusToken(S_compute \o <<".">> \o S_submit, sum.compute.submit.status)
    \o StatusToken(S_compute \o <<".">> \o S_return, sum.compute.return.status)
    \o StatusToken(S_pullPath, sum.pullPath.status)

\* the loop of serialize_app_response_status over
\* ['pushPath', 'compute' x ['submit', 'return'], 'pullPath', 'swiftPut']
NormalizedStatus(d_response) ==
    LET sum == d_response.jobOperationSummary IN
       StatusToken(S_pushPath, sum.pushPath.status)
    \o StatusToken(S_compute \o <<".">> \o S_submit, sum.compute.submit.status)
    \o StatusToken(S_compute \o <<".">> \o S_return, sum.compute.return.status)
    \o StatusToken(S_pullPath, sum.pullPath.status)
    \o StatusToken(S_swiftPut, sum.swiftPut.status)

\* SuccessGuard without the check of the Job's status
SuccessGuard_NoStatusCheck(str_responseStatus, str_DBstatus) ==
    Contains(str_responseStatus, S_swiftPutTrue)

\* SuccessGuard with the response status compared for equality
SuccessGuard_ExactMatch(str_responseStatus, str_DBstatus) ==
    /\ str_responseStatus = S_swiftPutTrue
    /\ str_DBstatus # "finishedSuccessfully"

\* the success guard: 'swiftPut:True' in str_responseStatus and
\* str_DBstatus != 'finishedSuccessfully'
SuccessGuard(str_responseStatus, str_DBstatus) ==
    /\ Contains(str_responseStatus, S_swiftPutTrue)
    /\ str_DBstatus # "finishedSuccessfully"

\* the error guard: str_responseStatus == 'finishedWithError'
ErrorGuard(str_responseStatus) == str_responseStatus = S_finishedWithError

\* self.c_plugin_inst.save(): the whole in-memory record replaces the stored one
Save(instance) == instance

\* ---------------------------------------------------------------- queries

\* self.str_job_id
str_job_id(plugin_inst) == S_chris_jid \o IntToStr(plugin_inst.id)

\* StatusMsg keyed by the plugin instance's id alone
StatusMsg_KeyIsId(plugin_inst) ==
    [action |-> "status", meta |-> [remote |-> [key |-> IntToStr(plugin_inst.id)]]]

\* the 'status' query d_msg of check_plugin_instance_app_exec_status
StatusMsg(plugin_inst) ==
    [action |-> "status", meta |-> [remote |-> [key |-> str_job_id(plugin_inst)]]]

\* no query built yet
NoMsg == [action |-> "none"]

\* the 'search' query d_msg of handle_app_remote_error for one field
SearchMsg(plugin_inst, field) ==
    [action |-> "search",
     meta |-> [key |-> "jid", value |-> str_job_id(plugin_inst), job |-> "0",
               when |-> "end", field |-> field]]

\* --------------------------------------------------------- Error Collector

\* an item of a dict of the search response: a value or a nested dict
Leaf(k, v) == [k |-> k, leaf |-> TRUE, v |-> v, d |-> <<>>]
Node(k, d) == [k |-> k, leaf |-> FALSE, v |-> <<>>, d |-> d]

\* str_deepnest(d): str_deepVal after the descent through the items of d
RECURSIVE str_deepnest(_, _)
str_deepnest(d, str_deepVal) ==
    IF d = <<>> THEN str_deepVal
    ELSE LET item == Head(d)
         IN  str_deepnest(Tail(d),
                IF item.leaf THEN item.k \o <<" ", ":", " ">> \o item.v
                ELSE str_deepnest(item.d, str_deepVal))

\* a search response of the remote service
SearchResponse(d_ret) == [isDict |-> TRUE, d_ret |-> d_ret]

S_stderr == <<"s", "t", "d", "e", "r", "r">>
S_returncode == <<"r", "e", "t", "u", "r", "n", "c", "o", "d", "e">>
S_boom == <<"b", "o", "o", "m">>
S_one == <<"1">>
S_zero == <<"0">>

\* {'0': {'stderr': 'boom'}}
D_stderr == SearchResponse(<<Node(S_zero, <<Leaf(S_stderr, S_boom)>>)>>)
\* {'0': {'returncode': '1'}}
D_returncode == SearchResponse(<<Node(S_zero, <<Leaf(S_returncode, S_one)>>)>>)
\* {'0': {'stderr': 'boom'}, 'returncode': '1'}
D_mixed ==
    SearchResponse(<<Node(S_zero, <<Leaf(S_stderr, S_boom)>>),
                     Leaf(S_returncode, S_one)>>)
\* {'0': {}}
D_empty == SearchResponse(<<Node(S_zero, <<>>)>>)

\* what call_app_service can return to a search query
SearchResponses == {D_stderr, D_returncode, D_mixed, D_empty, RefusedResponse}

\* handle_app_remote_error(): the 'stderr' query, its deepVal logged, then
\* the 'returncode' query and str_deepVal logged again; d_response['d_ret']
\* on a text raises
HandleAppRemoteError ==
    /\ errMsgs = <<>>
    /\ \E r1, r2 \in SearchResponses :
          IF ~r1.isDict
          THEN /\ errMsgs' = <<SearchMsg(job, "stderr")>>
               /\ errResps' = <<r1>>
               /\ errLog' = <<>>
          ELSE LET str_deepVal == str_deepnest(r1.d_ret, <<>>)
               IN  /\ errMsgs' = <<SearchMsg(job, "stderr"),
                                   SearchMsg(job, "returncode")>>
                   /\ errResps' = <<r1, r2>>
                   /\ errLog' = IF ~r2.isDict THEN <<str_deepVal>>
                                ELSE <<str_deepVal,
                                       str_deepnest(r2.d_ret, str_deepVal)>>
    /\ UNCHANGED <<recVars, subVars, zipVars>>

\* --------------------------------------------------------- reconciliation

\* the task loads the plugin instance and builds its manager
LoadBody(w) ==
    /\ UNCHANGED <<subVars, auxVars>>
    /\ pc[w] \in {"idle", "done", "raised"}
    /\ inst' = [inst EXCEPT ![w] = db]
    /\ resp' = [resp EXCEPT ![w] = NoResponse]
    /\ respStatus' = [respStatus EXCEPT ![w] = <<>>]
    /\ errInvoked' = [errInvoked EXCEPT ![w] = FALSE]
    /\ msg' = [msg EXCEPT ![w] = NoMsg]
    /\ pc' = [pc EXCEPT ![w] = "call"]
    /\ UNCHANGED <<db, remote, registered, endWrites, now, cancelSeen>>

LoadInstance(w) ==
    /\ runs < MaxRuns
    /\ runs' = runs + 1
    /\ LoadBody(w)

\* d_response = self.call_app_service(d_msg) with the 'status' query
CallAppService(w) ==
    /\ UNCHANGED <<subVars, auxVars>>
    /\ pc[w] = "call"
    /\ msg' = [msg EXCEPT ![w] = StatusMsg(job)]
    /\ \E d_response \in {remote, RefusedResponse} :
          resp' = [resp EXCEPT ![w] = d_response]
    /\ pc' = [pc EXCEPT ![w] = "serialize"]
    /\ UNCHANGED <<db, remote, inst, respStatus, errInvoked, registered,
                   endWrites, now, runs, cancelSeen>>

\* SerializeAppResponseStatus with a response that is a text saved as the
\* summary and the call going on to its end
SerializeAppResponseStatus_SavesText(w) ==
    /\ UNCHANGED <<subVars, auxVars>>
    /\ pc[w] = "serialize"
    /\ IF ~resp[w].isDict
       THEN LET updated == [inst[w] EXCEPT !.summary = JsonDumps(resp[w].text)]
            IN  /\ inst' = [inst EXCEPT ![w] = updated]
                /\ db' = Save(updated)
                /\ pc' = [pc EXCEPT ![w] = "errcheck"]
                /\ UNCHANGED respStatus
       ELSE LET updated == [inst[w] EXCEPT
                               !.summary = JsonDumps(resp[w].jobOperationSummary),
                               !.raw = json_zipToStr(resp[w].jobOperation)]
                status == NormalizedStatus(resp[w])
            IN  /\ inst' = [inst EXCEPT ![w] = updated]
                /\ db' = Save(updated)
                /\ respStatus' = [respStatus EXCEPT ![w] = status]
                /\ pc' = [pc EXCEPT ![w] =
                            IF SuccessGuard(status, updated.status)
                            THEN "register" ELSE "errcheck"]
    /\ UNCHANGED <<remote, resp, errInvoked, registered, endWrites, now, runs,
                   cancelSeen, msg>>

\* SerializeAppResponseStatus with summary and raw persisted only when the
\* response takes the success branch
SerializeAppResponseStatus_GatedOnTerminal(w) ==
    /\ UNCHANGED <<subVars, auxVars>>
    /\ pc[w] = "serialize"
    /\ IF ~resp[w].isDict
       THEN /\ pc' = [pc EXCEPT ![w] = "raised"]
            /\ UNCHANGED <<db, inst, respStatus>>
       ELSE LET status == NormalizedStatus(resp[w])
                gated == SuccessGuard(status, inst[w].status)
                updated == IF gated
                           THEN [inst[w] EXCEPT
                                   !.summary = JsonDumps(resp[w].jobOperationSummary),
                                   !.raw = json_zipToStr(resp[w].jobOperation)]
                           ELSE inst[w]
            IN  /\ inst' = [inst EXCEPT ![w] = updated]
                /\ db' = IF gated THEN Save(updated) ELSE db
                /\ respStatus' = [respStatus EXCEPT ![w] = status]
                /\ pc' = [pc EXCEPT ![w] = IF gated THEN "register" ELSE "errcheck"]
    /\ UNCHANGED <<remote, resp, errInvoked, registered, endWrites, now, runs,
                   cancelSeen, msg>>

\* serialize_app_response_status, then the guard of the success branch
SerializeAppResponseStatus(w) ==
    /\ UNCHANGED <<subVars, auxVars>>
    /\ pc[w] = "serialize"
    /\ IF ~resp[w].isDict
       THEN \* d_response['jobOperationSummary'] on a text raises
            /\ pc' = [pc EXCEPT ![w] = "raised"]
            /\ UNCHANGED <<db, inst, respStatus>>
       ELSE LET updated == [inst[w] EXCEPT
                               !.summary = JsonDumps(resp[w].jobOperationSummary),
                               !.raw = json_zipToStr(resp[w].jobOperation)]
                status == NormalizedStatus(resp[w])
            IN  /\ inst' = [inst EXCEPT ![w] = updated]
                /\ db' = Save(updated)
                /\ respStatus' = [respStatus EXCEPT ![w] = status]
                /\ pc' = [pc EXCEPT ![w] =
                            IF SuccessGuard(status, updated.status)
                            THEN "register" ELSE "errcheck"]
    /\ UNCHANGED <<remote, resp, errInvoked, registered, endWrites, now, runs,
                   cancelSeen, msg>>

\* self.c_plugin_inst.register_output_files(swiftState=d_swiftState)
RegisterOutputFiles(w) ==
    /\ UNCHANGED <<subVars, auxVars>>
    /\ pc[w] = "register"
    /\ registered' = Append(registered, resp[w].jobOperation.info.swiftPut)
    /\ pc' = [pc EXCEPT ![w] = "save"]
    /\ UNCHANGED <<db, remote, inst, resp, respStatus, errInvoked, endWrites,
                   now, runs, cancelSeen, msg>>

\* status = 'finishedSuccessfully'; end_date = timezone.now(); save()
SaveFinished(w) ==
    /\ UNCHANGED <<subVars, auxVars>>
    /\ pc[w] = "save"
    /\ LET updated == [inst[w] EXCEPT !.status = "finishedSuccessfully",
                                      !.end_date = {now}]
       IN  /\ inst' = [inst EXCEPT ![w] = updated]
           /\ db' = Save(updated)
    /\ endWrites' = endWrites + 1
    /\ now' = now + 1
    /\ pc' = [pc EXCEPT ![w] = "errcheck"]
    /\ UNCHANGED <<remote, resp, respStatus, errInvoked, registered, runs,
                   cancelSeen, msg>>

\* if str_responseStatus == 'finishedWithError': self.handle_app_remote_error()
ErrorCheck(w) ==
    /\ UNCHANGED <<subVars, auxVars>>
    /\ pc[w] = "errcheck"
    /\ errInvoked' = [errInvoked EXCEPT ![w] = ErrorGuard(respStatus[w])]
    /\ pc' = [pc EXCEPT ![w] = "done"]
    /\ UNCHANGED <<db, remote, inst, resp, respStatus, registered, endWrites,
                   now, runs, cancelSeen, msg>>

\* PluginInstance.cancel(): a started Job becomes 'cancelled'
Cancel ==
    /\ UNCHANGED <<subVars, auxVars>>
    /\ db.status = "started"
    /\ db' = [db EXCEPT !.status = "cancelled"]
    /\ cancelSeen' = TRUE
    /\ UNCHANGED <<remote, pc, inst, resp, respStatus, errInvoked, registered,
                   endWrites, now, runs, msg>>

\* the remote job ends: the answer to the next status query changes
RemoteChange ==
    /\ UNCHANGED <<subVars, auxVars>>
    /\ remote = R_running
    /\ remote' \in FinalResponses
    /\ UNCHANGED <<db, pc, inst, resp, respStatus, errInvoked, registered,
                   endWrites, now, runs, cancelSeen, msg>>

\* ------------------------------------------------- plugins and jobs

ParamSpec(name, type, action, flag) ==
    [name |-> name, type |-> type, action |-> action, flag |-> flag]

\* an 'fs' plugin with two 'path' parameters, an 'unextpath' one and flags
FsPlugin ==
    [type |-> "fs", name |-> S_simplefsapp,
     selfpath |-> S_fs_selfpath, selfexec |-> S_fs_selfexec,
     execshell |-> S_python3, dock_image |-> "fnndsc/pl-simplefsapp",
     parameters |-> <<ParamSpec("dir", "path", "store", S_flag_dir),
                      ParamSpec("aux", "path", "store", S_flag_aux),
                      ParamSpec("ext", "unextpath", "store", S_flag_ext),
                      ParamSpec("verbose", "boolean", "store_true", S_flag_v),
                      ParamSpec("quiet", "boolean", "store_false", S_flag_q)>>]

\* a 'ds' plugin, which can also have a 'path' parameter
DsPlugin ==
    [type |-> "ds", name |-> S_simpledsapp,
     selfpath |-> S_ds_selfpath, selfexec |-> S_ds_selfexec,
     execshell |-> S_python3, dock_image |-> "fnndsc/pl-simpledsapp",
     parameters |-> <<ParamSpec("prefix", "string", "store", S_flag_prefix),
                      ParamSpec("dir", "path", "store", S_flag_dir)>>]

\* a plugin instance; previous is <<>> (None) or <<the previous instance>>
PluginInstance(id, plugin, previous) ==
    [id |-> id, plugin |-> plugin, previous |-> previous,
     owner |-> S_foo, feed_id |-> 1, compute_resource |-> "host",
     number_of_workers |-> 1, cpu_limit |-> 1000, memory_limit |-> 200,
     gpu_limit |-> 0]

J_root == PluginInstance(42, FsPlugin, <<>>)
J_down == PluginInstance(43, DsPlugin, <<J_root>>)
J_down2 == PluginInstance(107, DsPlugin, <<J_down>>)

Jobs == {J_root, J_down, J_down2}

\* '<plugin name>_<id>/data'
OutputLeaf(inst_) ==
    inst_.plugin.name \o <<"_">> \o IntToStr(inst_.id) \o <<"/">> \o S_data

\* PluginInstance.get_output_path()
RECURSIVE get_output_path(_)
get_output_path(inst_) ==
    IF inst_.previous = <<>>
    THEN inst_.owner \o <<"/">> \o S_feed \o IntToStr(inst_.feed_id)
            \o <<"/">> \o OutputLeaf(inst_)
    ELSE PathJoin(Dirname(get_output_path(inst_.previous[1])), OutputLeaf(inst_))

\* the values a submitted parameter of the given type can take
ValuesOfType(type) ==
    CASE type = "path" ->
            {PyText(<<>>), PyText(S_dotslash), PyText(S_noisy_uploads),
             PyText(S_uploads), PyText(S_missing)}
      [] type = "unextpath" -> {PyText(S_uploads)}
      [] type = "boolean" -> {PyBool(TRUE), PyBool(FALSE)}
      [] OTHER -> {PyText(S_lolo)}

\* the entries a parameter_dict for the plugin can hold: declared
\* parameters with a value of their type, and an undeclared one
TypedEntriesOf(plugin) ==
    UNION { { [name |-> plugin.parameters[i].name, value |-> v] :
                v \in ValuesOfType(plugin.parameters[i].type) } :
            i \in 1..Len(plugin.parameters) }
    \cup {[name |-> "bogus", value |-> PyText(S_lolo)]}

\* the parameter dictionaries: up to MaxParams entries, keys distinct
ParamDicts(plugin) ==
    { d \in UNION { [1..n -> TypedEntriesOf(plugin)] : n \in 0..MaxParams } :
        \A i, j \in 1..Len(d) : i # j => d[i].name # d[j].name }

\* parameter_dict[name]
DictGet(parameter_dict, name) ==
    (CHOOSE e \in {parameter_dict[i] : i \in 1..Len(parameter_dict)} :
        e.name = name).value

\* --------------------------------------------------------- Blob Store

\* local data dir: os.path.join(os.path.expanduser("~"), 'data')
data_dir == PathJoin(S_home, S_data)

SquashInvalidFile == LStrip(PathJoin(data_dir, S_squashInvalidFile), {"/"})
SquashEmptyFile == LStrip(PathJoin(data_dir, S_squashEmptyFile), {"/"})

SwiftObject(name, contents) == [name |-> name, contents |-> contents]

\* SwiftManager.path_exists(path): some object lies under the path
path_exists(store, path) == \E o \in store : StartsWith(o.name, path)

\* SwiftManager.obj_exists(obj_path)
obj_exists(store, obj_path) == \E o \in store : o.name = obj_path

\* SwiftManager.upload_obj(swift_path, contents)
upload_obj(store, swift_path, contents) ==
    {o \in store : o.name # swift_path} \cup {SwiftObject(swift_path, contents)}

\* the operations of the Blob Store that can raise ClientException
SwiftOps == {"path_exists", "obj_exists", "upload_obj"}

\* the stores a submission can find: the user's upload, and the squash
\* objects earlier submissions may have left
SwiftStores ==
    { {SwiftObject(S_uploads_file, S_lolo)} \cup squashed :
        squashed \in SUBSET {SwiftObject(SquashInvalidFile, S_squashInvalidMsg),
                             SwiftObject(SquashEmptyFile, S_squashEmptyMsg)} }

\* ------------------------------------------------------ Input Resolver

\* the try block of manage_app_service_fsplugin_inputdir: check for the
\* squash object, upload it when missing; on ClientException the input dir
\* stays what it was, otherwise it becomes the squash file's directory
SquashInputdir(str_inputdir, str_squashFile, str_squashMsg, store, failing, calls) ==
    IF "obj_exists" \in failing
    THEN [inputdir |-> str_inputdir, store |-> store,
          calls |-> calls \o <<<<"obj_exists", str_squashFile, "error">>>>]
    ELSE IF obj_exists(store, str_squashFile)
    THEN [inputdir |-> Dirname(str_squashFile), store |-> store,
          calls |-> calls \o <<<<"obj_exists", str_squashFile, "true">>>>]
    ELSE IF "upload_obj" \in failing
    THEN [inputdir |-> str_inputdir, store |-> store,
          calls |-> calls \o <<<<"obj_exists", str_squashFile, "false">>,
                               <<"upload_obj", str_squashFile, "error">>>>]
    ELSE [inputdir |-> Dirname(str_squashFile),
          store |-> upload_obj(store, str_squashFile, str_squashMsg),
          calls |-> calls \o <<<<"obj_exists", str_squashFile, "false">>,
                               <<"upload_obj", str_squashFile, "ok">>>>]

\* manage_app_service_fsplugin_inputdir with the ClientException of
\* path_exists treated as 'the path does not exist'
manage_app_service_fsplugin_inputdir_FailClosed(inputdir, store, failing) ==
    LET str_inputdir == LStrip(Strip(inputdir), {"."})
    IN  IF str_inputdir # <<>>
        THEN IF "path_exists" \notin failing /\ path_exists(store, str_inputdir)
             THEN [inputdir |-> str_inputdir, store |-> store,
                   calls |-> <<<<"path_exists", str_inputdir, "true">>>>]
             ELSE SquashInputdir(str_inputdir, SquashInvalidFile,
                                 S_squashInvalidMsg, store, failing,
                                 <<<<"path_exists", str_inputdir,
                                     IF "path_exists" \in failing
                                     THEN "error" ELSE "false">>>>)
        ELSE SquashInputdir(str_inputdir, SquashEmptyFile, S_squashEmptyMsg,
                            store, failing, <<>>)

\* manage_app_service_fsplugin_inputdir(inputdir), with the Blob Store as
\* found and the set of its operations that raise ClientException
manage_app_service_fsplugin_inputdir(inputdir, store, failing) ==
    LET str_inputdir == LStrip(Strip(inputdir), {"."})
    IN  IF str_inputdir # <<>>
        THEN IF "path_exists" \in failing
             THEN [inputdir |-> str_inputdir, store |-> store,
                   calls |-> <<<<"path_exists", str_inputdir, "error">>>>]
             ELSE IF path_exists(store, str_inputdir)
             THEN [inputdir |-> str_inputdir, store |-> store,
                   calls |-> <<<<"path_exists", str_inputdir, "true">>>>]
             ELSE SquashInputdir(str_inputdir, SquashInvalidFile,
                                 S_squashInvalidMsg, store, failing,
                                 <<<<"path_exists", str_inputdir, "false">>>>)
        ELSE SquashInputdir(str_inputdir, SquashEmptyFile, S_squashEmptyMsg,
                            store, failing, <<>>)

\* ------------------------------------------------------- Job Submitter

\* index of the first declared parameter with the name, 0 when none
FirstMatch(db_parameters, param_name) ==
    LET hits == {i \in 1..Len(db_parameters) : db_parameters[i].name = param_name}
    IN  IF hits = {} THEN 0 ELSE CHOOSE i \in hits : \A j \in hits : i <= j

\* ArgsOfParam with the submitted value of a 'path' parameter passed on
ArgsOfParam_KeepsPathValue(db_param, param_value, str_app_container_inputdir) ==
    (IF db_param.action = "store"
     THEN <<PyText(db_param.flag),
            IF db_param.type = "unextpath"
            THEN PyText(str_app_container_inputdir) ELSE param_value>>
     ELSE <<>>)
    \o (IF db_param.action = "store_true" /\ PyTruthy(param_value)
        THEN <<PyText(db_param.flag)>> ELSE <<>>)
    \o (IF db_param.action = "store_false" /\ ~PyTruthy(param_value)
        THEN <<PyText(db_param.flag)>> ELSE <<>>)

\* what one submitted parameter appends to app_args
ArgsOfParam(db_param, param_value, str_app_container_inputdir) ==
    (IF db_param.action = "store"
     THEN <<PyText(db_param.flag),
            IF db_param.type \in {"unextpath", "path"}
            THEN PyText(str_app_container_inputdir) ELSE param_value>>
     ELSE <<>>)
    \o (IF db_param.action = "store_true" /\ PyTruthy(param_value)
        THEN <<PyText(db_param.flag)>> ELSE <<>>)
    \o (IF db_param.action = "store_false" /\ ~PyTruthy(param_value)
        THEN <<PyText(db_param.flag)>> ELSE <<>>)

\* the loop over parameter_dict: app_args and path_param_names after the
\* entries from position i on
RECURSIVE ParamLoop(_, _, _, _)
ParamLoop(parameter_dict, db_parameters, i, acc) ==
    IF i > Len(parameter_dict) THEN acc
    ELSE LET e == parameter_dict[i]
             m == FirstMatch(db_parameters, e.name)
         IN  IF m = 0
             THEN ParamLoop(parameter_dict, db_parameters, i + 1, acc)
             ELSE LET db_param == db_parameters[m] IN
                  ParamLoop(parameter_dict, db_parameters, i + 1,
                    [app_args |-> acc.app_args
                        \o ArgsOfParam(db_param, e.value, S_share_incoming),
                     path_param_names |->
                        IF db_param.action = "store" /\ db_param.type = "path"
                        THEN Append(acc.path_param_names, e.name)
                        ELSE acc.path_param_names])

\* app_args and path_param_names of run_plugin_instance_app
AppArgs(plugin_inst, parameter_dict) ==
    ParamLoop(parameter_dict, plugin_inst.plugin.parameters, 1,
        [app_args |->
            (IF plugin_inst.plugin.type = "ds"
             THEN <<PyText(S_share_incoming)>> ELSE <<>>)
            \o <<PyText(S_share_outgoing), PyText(S_saveinputmeta),
                 PyText(S_saveoutputmeta)>>,
         path_param_names |-> <<>>])

\* ResolveInputdir without the branch on self.c_plugin_inst.previous
ResolveInputdir_IgnorePrevious(plugin_inst, parameter_dict, store, failing) ==
    LET names == AppArgs(plugin_inst, parameter_dict).path_param_names
        str_inputdir ==
            IF names # <<>>
            THEN PyStr(DictGet(parameter_dict, names[Len(names)]))
            ELSE <<>>
    IN  manage_app_service_fsplugin_inputdir(str_inputdir, store, failing)

\* str_inputdir of run_plugin_instance_app, with the Blob Store's answer
ResolveInputdir(plugin_inst, parameter_dict, store, failing) ==
    IF plugin_inst.previous # <<>>
    THEN [inputdir |-> get_output_path(plugin_inst.previous[1]),
          store |-> store, calls |-> <<>>]
    ELSE LET names == AppArgs(plugin_inst, parameter_dict).path_param_names
             str_inputdir ==
                IF names # <<>>
                THEN PyStr(DictGet(parameter_dict, names[Len(names)]))
                ELSE <<>>
         IN  manage_app_service_fsplugin_inputdir(str_inputdir, store, failing)

\* CoordinateMsg with the input location as the target path as well
CoordinateMsg_TargetIsSource(plugin_inst, parameter_dict, str_inputdir) ==
    LET plugin == plugin_inst.plugin
        str_exec == PathJoin(plugin.selfpath, plugin.selfexec)
        l_appArgs == [i \in 1..Len(AppArgs(plugin_inst, parameter_dict).app_args) |->
                        PyStr(AppArgs(plugin_inst, parameter_dict).app_args[i])]
        str_cmd == str_exec \o <<" ">> \o StrJoin(<<" ">>, l_appArgs)
    IN  [action |-> "coordinate",
         threadAction |-> TRUE,
         meta_data |->
            [localSource |-> [path |-> str_inputdir, storageType |-> "swift"],
             localTarget |-> [path |-> str_inputdir,
                              createDir |-> TRUE],
             transport |-> [mechanism |-> "compress",
                            compress |-> [archive |-> "zip", unpack |-> TRUE,
                                          cleanup |-> TRUE]],
             service |-> plugin_inst.compute_resource],
         meta_compute |->
            [cmd |-> plugin.execshell \o <<" ">> \o str_cmd,
             threaded |-> TRUE,
             auid |-> plugin_inst.owner,
             jid |-> str_job_id(plugin_inst),
             number_of_workers |-> IntToStr(plugin_inst.number_of_workers),
             cpu_limit |-> IntToStr(plugin_inst.cpu_limit),
             memory_limit |-> IntToStr(plugin_inst.memory_limit),
             gpu_limit |-> IntToStr(plugin_inst.gpu_limit),
             container |-> [target |-> [image |-> plugin.dock_image,
                                        selfexec |-> plugin.selfexec,
                                        selfpath |-> plugin.selfpath,
                                        execshell |-> plugin.execshell]],
             service |-> plugin_inst.compute_resource]]

\* the 'coordinate' message d_msg of run_plugin_instance_app
CoordinateMsg(plugin_inst, parameter_dict, str_inputdir) ==
    LET plugin == plugin_inst.plugin
        str_exec == PathJoin(plugin.selfpath, plugin.selfexec)
        l_appArgs == [i \in 1..Len(AppArgs(plugin_inst, parameter_dict).app_args) |->
                        PyStr(AppArgs(plugin_inst, parameter_dict).app_args[i])]
        str_cmd == str_exec \o <<" ">> \o StrJoin(<<" ">>, l_appArgs)
    IN  [action |-> "coordinate",
         threadAction |-> TRUE,
         meta_data |->
            [localSource |-> [path |-> str_inputdir, storageType |-> "swift"],
             localTarget |-> [path |-> get_output_path(plugin_inst),
                              createDir |-> TRUE],
             transport |-> [mechanism |-> "compress",
                            compress |-> [archive |-> "zip", unpack |-> TRUE,
                                          cleanup |-> TRUE]],
             service |-> plugin_inst.compute_resource],
         meta_compute |->
            [cmd |-> plugin.execshell \o <<" ">> \o str_cmd,
             threaded |-> TRUE,
             auid |-> plugin_inst.owner,
             jid |-> str_job_id(plugin_inst),
             number_of_workers |-> IntToStr(plugin_inst.number_of_workers),
             cpu_limit |-> IntToStr(plugin_inst.cpu_limit),
             memory_limit |-> IntToStr(plugin_inst.memory_limit),
             gpu_limit |-> IntToStr(plugin_inst.gpu_limit),
             container |-> [target |-> [image |-> plugin.dock_image,
                                        selfexec |-> plugin.selfexec,
                                        selfpath |-> plugin.selfpath,
                                        execshell |-> plugin.execshell]],
             service |-> plugin_inst.compute_resource]]

\* RunPluginInstanceApp that also saves the Job with the command it sent as
\* summary
RunPluginInstanceApp_SavesSummary ==
    /\ sent = <<>>
    /\ \E failing \in SUBSET SwiftOps :
        LET resolved == ResolveInputdir(job, params, swift, failing)
            d_msg == CoordinateMsg(job, params, resolved.inputdir)
        IN  /\ swift' = resolved.store
            /\ swiftCalls' = resolved.calls
            /\ sent' = <<d_msg>>
            /\ db' = Save([db EXCEPT !.summary = d_msg.meta_compute.cmd])
    /\ UNCHANGED <<job, params, auxVars, remote, pc, inst, resp, respStatus,
                   errInvoked, registered, endWrites, now, runs, cancelSeen,
                   msg>>

\* run_plugin_instance_app(parameter_dict)
RunPluginInstanceApp ==
    /\ sent = <<>>
    /\ \E failing \in SUBSET SwiftOps :
        LET resolved == ResolveInputdir(job, params, swift, failing)
        IN  /\ swift' = resolved.store
            /\ swiftCalls' = resolved.calls
            /\ sent' = <<CoordinateMsg(job, params, resolved.inputdir)>>
    /\ UNCHANGED <<job, params, recVars, auxVars>>

\* ------------------------------------------------------------- start

InitReconciler ==
    /\ db = NewInstance
    /\ remote \in DictResponses
    /\ pc = [w \in Workers |-> "idle"]
    /\ inst = [w \in Workers |-> NewInstance]
    /\ resp = [w \in Workers |-> NoResponse]
    /\ respStatus = [w \in Workers |-> <<>>]
    /\ errInvoked = [w \in Workers |-> FALSE]
    /\ registered = <<>>
    /\ endWrites = 0
    /\ now = 1
    /\ runs = 0
    /\ cancelSeen = FALSE
    /\ msg = [w \in Workers |-> NoMsg]

\* the Error Collector and the Archive Builder were not called
InitAux ==
    /\ errMsgs = <<>>
    /\ errLog = <<>>
    /\ errResps = <<>>
    /\ zipPaths = <<>>
    /\ zipEntries = <<>>
    /\ zipState = "idle"
    /\ zipLog = <<>>
    /\ zipReturn = NotReturned

\* a Job under reconciliation: it was submitted before
Init ==
    /\ InitReconciler
    /\ InitAux
    /\ job = J_root
    /\ params = <<>>
    /\ swift = {SwiftObject(S_uploads_file, S_lolo)}
    /\ swiftCalls = <<>>
    /\ sent = <<>>

\* a Job about to be submitted, with any parameter dictionary of its plugin
InitSubmit ==
    /\ InitReconciler
    /\ InitAux
    /\ remote = R_running
    /\ job \in Jobs
    /\ params \in ParamDicts(job.plugin)
    /\ swift \in SwiftStores
    /\ swiftCalls = <<>>
    /\ sent = <<>>

SubmitNext == RunPluginInstanceApp

SubmitSpec == InitSubmit /\ [][SubmitNext]_vars

Reconcile(w) ==
    \/ CallAppService(w)
    \/ SerializeAppResponseStatus(w)
    \/ RegisterOutputFiles(w)
    \/ SaveFinished(w)
    \/ ErrorCheck(w)

Next ==
    \/ \E w \in Workers : LoadInstance(w)
    \/ \E w \in Workers : Reconcile(w)
    \/ Cancel
    \/ RemoteChange

Spec == Init /\ [][Next]_vars

\* ------------------------------------------------------ Archive Builder

\* prefixes handed to create_zip_file in one call
MaxPrefixes == 2

S_a_dir == <<"a", "/">>
S_b_dir == <<"b", "/">>
S_c_dir == <<"c", "/">>
S_a_1 == <<"a", "/", "1">>
S_a_2 == <<"a", "/", "2">>
S_b_1 == <<"b", "/", "1">>

\* the objects of the Blob Store the archives are built from
ZipStore ==
    {SwiftObject(S_a_1, <<"x">>), SwiftObject(S_a_2, <<"y">>),
     SwiftObject(S_b_1, <<"z">>)}

\* the stores a build can find: 'a/1' with any of the other objects
ZipStores ==
    {store \in SUBSET ZipStore : SwiftObject(S_a_1, <<"x">>) \in store}

\* the object names in the order the Blob Store lists them
ListingOrder == <<S_a_1, S_a_2, S_b_1>>

\* the prefixes a caller can ask for; nothing lies under 'c/'
Prefixes == {S_a_dir, S_b_dir, S_c_dir}

\* the swift_paths arguments
PrefixLists == UNION { [1..n -> Prefixes] : n \in 0..MaxPrefixes }

\* SwiftManager.ls(path): the names of the objects under the path
ls(store, path) ==
    SelectSeq(ListingOrder,
              LAMBDA n : obj_exists(store, n) /\ StartsWith(n, path))

\* SwiftManager.download_obj(obj_path)
download_obj(store, obj_path) ==
    (CHOOSE o \in store : o.name = obj_path).contents

S_zip == <<".", "z", "i", "p">>

\* zipfile_path = os.path.join(self.data_dir, self.str_job_id + '.zip')
zipfile_path(plugin_inst) == PathJoin(data_dir, str_job_id(plugin_inst) \o S_zip)

\* the value of a call of create_zip_file that reaches the end of the
\* function body: the body has no return statement
ZipReturnValue(path) == PyNone

\* the local state of create_zip_file when the zip file was just opened:
\* nothing written, l_ls and contents not yet assigned
ZipStart ==
    [entries |-> <<>>, log |-> <<>>, l_ls |-> <<>>, bound |-> FALSE,
     contents |-> <<>>, raised |-> FALSE]

\* the loop 'for obj_path in l_ls' of the i-th prefix: download, then
\* writestr(obj_path, contents) whether or not the download raised; with
\* contents never assigned the write raises UnboundLocalError
RECURSIVE ZipObjLoop(_, _, _, _, _)
ZipObjLoop(l_ls, i, z, store, failDl) ==
    IF l_ls = <<>> \/ z.raised THEN z
    ELSE LET obj_path == Head(l_ls) IN
         IF obj_path \in failDl
         THEN LET logged == Append(z.log, <<"download_obj", i, obj_path, "error">>)
              IN  IF ~z.bound
                  THEN [z EXCEPT !.log = logged, !.raised = TRUE]
                  ELSE ZipObjLoop(Tail(l_ls), i,
                         [z EXCEPT
                            !.log = Append(logged, <<"writestr", i, obj_path, "ok">>),
                            !.entries = Append(@, [name |-> obj_path,
                                                   contents |-> z.contents])],
                         store, failDl)
         ELSE LET contents == download_obj(store, obj_path) IN
              ZipObjLoop(Tail(l_ls), i,
                 [z EXCEPT
                    !.log = z.log \o <<<<"download_obj", i, obj_path, "ok">>,
                                       <<"writestr", i, obj_path, "ok">>>>,
                    !.bound = TRUE,
                    !.contents = contents,
                    !.entries = Append(@, [name |-> obj_path,
                                           contents |-> contents])],
                 store, failDl)

\* ZipPathLoop with l_ls kept from the prefix before when the listing fails
RECURSIVE ZipPathLoop_StaleListing(_, _, _, _, _, _)
ZipPathLoop_StaleListing(swift_paths, i, z, store, failLs, failDl) ==
    IF i > Len(swift_paths) \/ z.raised THEN z
    ELSE LET l_ls == IF i \in failLs THEN z.l_ls ELSE ls(store, swift_paths[i])
             listed == [z EXCEPT
                          !.l_ls = l_ls,
                          !.log = Append(@, <<"ls", i, swift_paths[i],
                                             IF i \in failLs THEN "error" ELSE "ok">>)]
         IN  ZipPathLoop_StaleListing(swift_paths, i + 1,
                ZipObjLoop(l_ls, i, listed, store, failDl),
                store, failLs, failDl)

\* the loop 'for swift_path in swift_paths' from the i-th prefix on:
\* l_ls = [], the listing (a ClientException leaves l_ls empty), then the
\* loop over l_ls
RECURSIVE ZipPathLoop(_, _, _, _, _, _)
ZipPathLoop(swift_paths, i, z, store, failLs, failDl) ==
    IF i > Len(swift_paths) \/ z.raised THEN z
    ELSE LET l_ls == IF i \in failLs THEN <<>> ELSE ls(store, swift_paths[i])
             listed == [z EXCEPT
                          !.l_ls = l_ls,
                          !.log = Append(@, <<"ls", i, swift_paths[i],
                                             IF i \in failLs THEN "error" ELSE "ok">>)]
         IN  ZipPathLoop(swift_paths, i + 1,
                ZipObjLoop(l_ls, i, listed, store, failDl),
                store, failLs, failDl)

\* create_zip_file(swift_paths): dirOk tells whether the data dir exists or
\* could be created (otherwise opening the zip file raises); failLs are the
\* positions whose listing raises ClientException, failDl the objects whose
\* download does
CreateZipFile ==
    /\ zipState = "idle"
    /\ \E dirOk \in BOOLEAN, failLs \in SUBSET (1..Len(zipPaths)),
          failDl \in SUBSET {o.name : o \in swift} :
          IF ~dirOk
          THEN /\ zipState' = "noarchive"
               /\ UNCHANGED <<zipEntries, zipLog, zipReturn>>
          ELSE LET z == ZipPathLoop(zipPaths, 1, ZipStart, swift, failLs, failDl)
               IN  /\ zipEntries' = z.entries
                   /\ zipLog' = z.log
                   /\ zipState' = IF z.raised THEN "raised" ELSE "done"
                   /\ zipReturn' = IF z.raised THEN NotReturned
                                   ELSE ZipReturnValue(zipfile_path(job))
    /\ UNCHANGED <<recVars, subVars, errVars, zipPaths>>

\* a manager about to build the archive of any list of prefixes
InitZip ==
    /\ InitReconciler
    /\ remote = R_running
    /\ job = J_root
    /\ params = <<>>
    /\ swift \in ZipStores
    /\ swiftCalls = <<>>
    /\ sent = <<>>
    /\ errMsgs = <<>>
    /\ errLog = <<>>
    /\ errResps = <<>>
    /\ zipPaths \in PrefixLists
    /\ zipEntries = <<>>
    /\ zipState = "idle"
    /\ zipLog = <<>>
    /\ zipReturn = NotReturned

ZipNext == CreateZipFile

ZipSpec == InitZip /\ [][ZipNext]_vars

\* ------------------------------------------------ life of one Job

\* a Job of any kind, created by the caller and not yet submitted
InitLife ==
    /\ InitReconciler
    /\ InitAux
    /\ remote = R_running
    /\ job \in Jobs
    /\ params = <<>>
    /\ swift = {SwiftObject(S_uploads_file, S_lolo)}
    /\ swiftCalls = <<>>
    /\ sent = <<>>

\* the Job is submitted, then reconciled again and again by one task at a
\* time while the remote job ends, and its remote error may be collected
LifeNext ==
    \/ RunPluginInstanceApp
    \/ sent # <<>> /\ LoadBody("w1") /\ UNCHANGED runs
    \/ sent # <<>> /\ CallAppService("w1")
    \/ sent # <<>> /\ SerializeAppResponseStatus("w1")
    \/ sent # <<>> /\ RegisterOutputFiles("w1")
    \/ sent # <<>> /\ SaveFinished("w1")
    \/ sent # <<>> /\ ErrorCheck("w1")
    \/ sent # <<>> /\ RemoteChange
    \/ sent # <<>> /\ HandleAppRemoteError

LifeSpec == InitLife /\ [][LifeNext]_vars

\* ------------------------------------------------ failing registration

\* RegisterOutputFilesRaises with the status and end_date set and saved
\* before the registration is called
RegisterOutputFilesRaises_StatusFirst(w) ==
    /\ UNCHANGED <<subVars, auxVars>>
    /\ pc[w] = "register"
    /\ LET updated == [inst[w] EXCEPT !.status = "finishedSuccessfully",
                                      !.end_date = {now}]
       IN  /\ inst' = [inst EXCEPT ![w] = updated]
           /\ db' = Save(updated)
    /\ endWrites' = endWrites + 1
    /\ now' = now + 1
    /\ pc' = [pc EXCEPT ![w] = "raised"]
    /\ UNCHANGED <<remote, resp, respStatus, errInvoked, registered, runs,
                   cancelSeen, msg>>

\* register_output_files(swiftState=d_swiftState) raises: the fault leaves
\* check_plugin_instance_app_exec_status before the status is assigned
RegisterOutputFilesRaises(w) ==
    /\ UNCHANGED <<subVars, auxVars>>
    /\ pc[w] = "register"
    /\ pc' = [pc EXCEPT ![w] = "raised"]
    /\ UNCHANGED <<db, remote, inst, resp, respStatus, errInvoked, registered,
                   endWrites, now, runs, cancelSeen, msg>>

\* the reconciliations of Spec, with registrations that can fail
RegFailNext ==
    \/ Next
    \/ \E w \in Workers : RegisterOutputFilesRaises(w)

RegFailSpec == Init /\ [][RegFailNext]_vars

\* -------------------------------------------- sequential reconciliation

Resting == {"idle", "done", "raised"}

\* no other reconciliation of the Job is in flight
Alone(w) == \A v \in Workers \ {w} : pc[v] \in Resting

\* the scheduler runs one reconciliation of the Job at a time
SeqNext ==
    \/ \E w \in Workers : Alone(w) /\ LoadInstance(w)
    \/ \E w \in Workers : Alone(w) /\ CallAppService(w)
    \/ \E w \in Workers : Alone(w) /\ SerializeAppResponseStatus(w)
    \/ \E w \in Workers : Alone(w) /\ RegisterOutputFiles(w)
    \/ \E w \in Workers : Alone(w) /\ SaveFinished(w)
    \/ \E w \in Workers : Alone(w) /\ ErrorCheck(w)
    \/ Cancel
    \/ RemoteChange

SeqSpec == Init /\ [][SeqNext]_vars

\* ------------------------------------- re-invoked reconciliation, fair

\* the scheduler invokes the reconciliation again, without end
Reinvoke(w) ==
    /\ LoadBody(w)
    /\ UNCHANGED runs

\* the status query reaches the remote service
CallAnswered(w) ==
    /\ CallAppService(w)
    /\ resp'[w] = remote

FairNext ==
    \/ Reinvoke("w1")
    \/ Reconcile("w1")
    \/ Cancel
    \/ RemoteChange

FairSpec ==
    /\ Init
    /\ [][FairNext]_vars
    /\ WF_vars(Reinvoke("w1") \/ Reconcile("w1"))
    /\ SF_vars(CallAnswered("w1"))

\* ------------------------------------------------------------- claims

\* the response reports the store-put phase as True
PutTrue(r) == r.isDict /\ r.jobOperationSummary.swiftPut.status = PyBool(TRUE)

\* the response reports the compute-return phase as finishedWithError
ReturnIsError(r) ==
    r.isDict /\ r.jobOperationSummary.compute.return.status = PyText(S_finishedWithError)

\* every phase of the response reports finishedSuccessfully / True
AllPhasesSuccessful(r) ==
    /\ r.isDict
    /\ LET sum == r.jobOperationSummary
           ok(v) == v = PyBool(TRUE) \/ v = PyText(S_finishedSuccessfully)
       IN  /\ ok(sum.pushPath.status)
           /\ ok(sum.compute.submit.status)
           /\ ok(sum.compute.return.status)
           /\ ok(sum.pullPath.status)
           /\ ok(sum.swiftPut.status)

\* C1: whatever the interleaving of concurrent reconciliations of a Job that
\* was never cancelled, output-file registration is invoked at most once and
\* end_date is written at most once.
C1_AtMostOnceConcurrent ==
    ~cancelSeen => (Len(registered) <= 1 /\ endWrites <= 1)

\* C2: reconciliations run one after the other register the output files
\* at most once and write end_date at most once; a finished reconciliation
\* that saw store-put success leaves exactly one registration and one
\* end_date write; once the Job is finishedSuccessfully no step changes its
\* status, its end_date, the registrations or the end_date writes.
C2_SequentialIdempotent ==
    /\ [](Len(registered) <= 1 /\ endWrites <= 1)
    /\ [](\A w \in Workers :
            (pc[w] = "done" /\ PutTrue(resp[w])) =>
                (Len(registered) = 1 /\ endWrites = 1))
    /\ [][db.status = "finishedSuccessfully" =>
            /\ db'.status = db.status
            /\ db'.end_date = db.end_date
            /\ registered' = registered
            /\ endWrites' = endWrites]_vars

\* C2 witness: a second reconciliation has ended on a store-put success
\* after the first one finished the Job.
C2_Witness ==
    /\ runs >= 2
    /\ \A w \in Workers : pc[w] = "done" /\ PutTrue(resp[w])
    /\ db.status = "finishedSuccessfully"
    /\ Len(registered) = 1

\* C3: a Job whose status is terminal keeps that status.
C3_TerminalIsSink ==
    [][db.status \in TerminalStatus => db'.status = db.status]_vars

\* C4: end_date is written at most once, in the step that first moves the
\* Job's status into a terminal value, never on a Job already terminal.
C4_EndDateOnce ==
    [][endWrites' # endWrites =>
            /\ endWrites = 0
            /\ db.status \notin TerminalStatus
            /\ db'.status \in TerminalStatus]_vars

\* C5: when the remote service reports compute-return finishedWithError for
\* a started Job and reconciliation keeps being invoked, the Job's status
\* eventually becomes finishedWithError (unless the Job is cancelled).
C5_FailureSurfaced ==
    (ReturnIsError(remote) /\ db.status = "started")
        ~> (db.status = "finishedWithError" \/ cancelSeen)

\* C6: a reconciliation whose response reports compute-return
\* finishedWithError has invoked the Error Collector by the time it ends.
C6_ErrorCollectorInvoked ==
    \A w \in Workers :
        (pc[w] = "done" /\ ReturnIsError(resp[w])) => errInvoked[w]

\* C7: a reconciliation of a Job not stored as finishedSuccessfully whose
\* response reports every phase successful gets a normalized status
\* containing 'swiftPut:True;' and goes on to register the output files with
\* the response's swiftPut detail, then sets status finishedSuccessfully and
\* end_date, and saves the Job.
C7_SuccessTransition ==
    [][\A w \in Workers :
        /\ (/\ pc[w] = "serialize" /\ pc'[w] # "serialize"
            /\ AllPhasesSuccessful(resp[w])
            /\ db.status # "finishedSuccessfully")
           => /\ Contains(respStatus'[w], S_swiftPutTrue \o <<";">>)
              /\ pc'[w] = "register"
        /\ (pc[w] = "register" /\ pc'[w] # "register")
           => /\ registered' =
                    Append(registered, resp[w].jobOperation.info.swiftPut)
              /\ db' = db
              /\ pc'[w] = "save"
        /\ (pc[w] = "save" /\ pc'[w] # "save")
           => /\ db'.status = "finishedSuccessfully"
              /\ db'.end_date = {now}
              /\ db' = inst'[w]
              /\ endWrites' = endWrites + 1]_vars

\* C7 witness: the first reconciliation of the Job, on an all-successful
\* response, has registered the files and saved the finished Job.
C7_Witness ==
    \E w \in Workers :
        /\ runs = 1
        /\ pc[w] = "errcheck"
        /\ AllPhasesSuccessful(resp[w])
        /\ registered = <<resp[w].jobOperation.info.swiftPut>>
        /\ db.status = "finishedSuccessfully"
        /\ db.end_date # {}

\* the submitted entries whose declared parameter has type 'path'
SubmittedPathEntries ==
    { i \in 1..Len(params) :
        \E k \in 1..Len(job.plugin.parameters) :
            /\ job.plugin.parameters[k].name = params[i].name
            /\ job.plugin.parameters[k].type = "path" }

\* the input location of the envelope that was sent
SentInputdir == sent[1].meta_data.localSource.path

\* C8: for a Job with previous set, the input location of the envelope is
\* the previous Job's output path whatever parameters were submitted, and
\* the submission makes no Blob Store call.
C8_PreviousWins ==
    (sent # <<>> /\ job.previous # <<>>) =>
        /\ SentInputdir = get_output_path(job.previous[1])
        /\ swiftCalls = <<>>

\* C8 witness: a downstream Job was submitted with a 'path' parameter that
\* names a location missing from the Blob Store.
C8_Witness ==
    /\ sent # <<>>
    /\ job.previous # <<>>
    /\ \E i \in SubmittedPathEntries : params[i].value = PyText(S_missing)

\* C9: for a root Job with no path-typed parameter submitted, the input
\* location is the squash-empty placeholder directory and the Blob Store
\* holds the object squashEmptyDir.txt in it with text 'Empty input dir.'.
C9_EmptySquash ==
    (sent # <<>> /\ job.previous = <<>> /\ SubmittedPathEntries = {}) =>
        /\ SentInputdir = Dirname(SquashEmptyFile)
        /\ SwiftObject(SquashEmptyFile, S_squashEmptyMsg) \in swift

\* the location of the single submitted 'path' parameter, trimmed
TrimmedSinglePath ==
    LStrip(Strip(PyStr(params[CHOOSE i \in SubmittedPathEntries : TRUE].value)), {"."})

\* C10: for a root Job whose single path parameter, trimmed, is non-empty:
\* when the Blob Store reports that it does not exist, the input location
\* is the squash-invalid placeholder directory, which holds the object
\* squashInvalidDir.txt with the text 'Path specified in object storage
\* does not exist!'; when it exists it is returned as-is and nothing is
\* uploaded.
C10_InvalidSquash ==
    (/\ sent # <<>>
     /\ job.previous = <<>>
     /\ Cardinality(SubmittedPathEntries) = 1
     /\ TrimmedSinglePath # <<>>
     /\ swiftCalls # <<>>)
    => /\ swiftCalls[1] = <<"path_exists", TrimmedSinglePath, "false">>
          => /\ SentInputdir = Dirname(SquashInvalidFile)
             /\ SwiftObject(SquashInvalidFile, S_squashInvalidMsg) \in swift
       /\ swiftCalls[1] = <<"path_exists", TrimmedSinglePath, "true">>
          => /\ SentInputdir = TrimmedSinglePath
             /\ Len(swiftCalls) = 1

\* C11: when the Blob Store's existence check of a non-empty trimmed
\* location raises a storage error, the submission goes on with that trimmed
\* location as the input location: the existence check is its only Blob
\* Store call (no squash object is checked or uploaded) and the Blob Store
\* is left as it was.
C11_ExistenceCheckFailsOpen ==
    [][(/\ sent = <<>> /\ sent' # <<>>
        /\ swiftCalls' # <<>>
        /\ swiftCalls'[1][1] = "path_exists"
        /\ swiftCalls'[1][3] = "error")
       => /\ Len(swiftCalls') = 1
          /\ swift' = swift
          /\ Len(sent') = 1
          /\ swiftCalls'[1][2] # <<>>
          /\ \E i \in SubmittedPathEntries :
                swiftCalls'[1][2] = LStrip(Strip(PyStr(params[i].value)), {"."})
          /\ sent'[1].meta_data.localSource.path = swiftCalls'[1][2]]_vars

\* C11 witness: a root Job was submitted with a location missing from the
\* Blob Store, the existence check raised, and the envelope carries the
\* location.
C11_Witness ==
    /\ sent # <<>>
    /\ job.previous = <<>>
    /\ swiftCalls = <<<<"path_exists", S_missing, "error">>>>
    /\ SentInputdir = S_missing

\* the Blob Store calls of the submission that look for a squash object
SquashChecks == {k \in 1..Len(swiftCalls) : swiftCalls[k][1] = "obj_exists"}

\* C12: whenever the Input Resolver takes the squash branch, the input
\* location is the directory portion of the squash file path, also when the
\* squash object's existence check or its upload fails with a storage error.
C12_SquashReturnsDirname ==
    (sent # <<>> /\ job.previous = <<>>) =>
        \A k \in SquashChecks : SentInputdir = Dirname(swiftCalls[k][2])

C14_SubmissionLeavesRecord ==
    [][sent' # sent =>
        /\ db.status = "started"
        /\ db'.status = db.status
        /\ db'.summary = db.summary
        /\ db'.raw = db.raw
        /\ db'.end_date = db.end_date]_vars

\* C14 witness: a root Job was submitted, the squash object was uploaded
\* for it, and the record is the one the caller created.
C14_Witness ==
    /\ sent # <<>>
    /\ job.previous = <<>>
    /\ \E k \in 1..Len(swiftCalls) :
          swiftCalls[k][1] = "upload_obj" /\ swiftCalls[k][3] = "ok"
    /\ db = NewInstance

\* the declared specs whose name is that of the i-th submitted parameter
DeclaredFor(i) ==
    {k \in 1..Len(job.plugin.parameters) :
        job.plugin.parameters[k].name = params[i].name}

\* the reference contribution of the i-th submitted parameter
RefContribution(i) ==
    IF DeclaredFor(i) = {} THEN <<>>
    ELSE LET k == CHOOSE k \in DeclaredFor(i) : \A l \in DeclaredFor(i) : k <= l
             d == job.plugin.parameters[k]
             flag == [t |-> "str", b |-> FALSE, s |-> d.flag]
             mount == [t |-> "str", b |-> FALSE, s |-> S_share_incoming]
             truthy == IF params[i].value.t = "bool" THEN params[i].value.b
                       ELSE Len(params[i].value.s) > 0
         IN  CASE d.action = "store" ->
                    <<flag, IF d.type \in {"path", "unextpath"}
                            THEN mount ELSE params[i].value>>
               [] d.action = "store_true" -> IF truthy THEN <<flag>> ELSE <<>>
               [] d.action = "store_false" -> IF truthy THEN <<>> ELSE <<flag>>
               [] OTHER -> <<>>

\* the reference argument vector after the first n submitted parameters
RECURSIVE RefArgVector(_)
RefArgVector(n) ==
    IF n = 0
    THEN (IF job.plugin.type = "ds"
          THEN <<[t |-> "str", b |-> FALSE, s |-> S_share_incoming]>> ELSE <<>>)
         \o <<[t |-> "str", b |-> FALSE, s |-> S_share_outgoing],
              [t |-> "str", b |-> FALSE, s |-> S_saveinputmeta],
              [t |-> "str", b |-> FALSE, s |-> S_saveoutputmeta]>>
    ELSE RefArgVector(n - 1) \o RefContribution(n)

\* C15: the argument vector of the submission is the reference one: the
\* input mount point first iff the plugin is 'ds'; the output mount point,
\* '--saveinputmeta', '--saveoutputmeta'; then for each submitted parameter
\* with a declared spec, in submission order: flag and value for 'store'
\* (the input mount point as value for types 'path' and 'unextpath'), the
\* flag iff the value is truthy for 'store_true', the flag iff it is falsy
\* for 'store_false'; undeclared parameters add nothing.
C15_ArgumentVector ==
    AppArgs(job, params).app_args = RefArgVector(Len(params))

\* C15 witness: an 'fs' Job was submitted with a falsy 'store_false'
\* parameter followed by a 'path' parameter.
C15_Witness ==
    /\ sent # <<>>
    /\ job.plugin.type = "fs"
    /\ Len(params) = 2
    /\ params[1] = [name |-> "quiet", value |-> PyBool(FALSE)]
    /\ params[2].name = "dir"
    /\ AppArgs(job, params).app_args =
          <<PyText(S_share_outgoing), PyText(S_saveinputmeta),
            PyText(S_saveoutputmeta), PyText(S_flag_q), PyText(S_flag_dir),
            PyText(S_share_incoming)>>

\* the position, in the plugin's declared parameters, of the spec of the
\* i-th submitted parameter
DeclaredPosition(i) ==
    CHOOSE k \in DeclaredFor(i) : \A l \in DeclaredFor(i) : k <= l

\* the value of the submitted 'path' parameter that is declared last, or ''
LastDeclaredPathValue ==
    IF SubmittedPathEntries = {} THEN <<>>
    ELSE LET i == CHOOSE i \in SubmittedPathEntries :
                    \A j \in SubmittedPathEntries :
                        DeclaredPosition(j) <= DeclaredPosition(i)
         IN  PyStr(params[i].value)

\* C16: for a root Job the location handed to the Input Resolver is the
\* value of the submitted 'path' parameter that comes last in the plugin's
\* declared parameter order, or '' when no 'path' parameter was submitted
\* ('unextpath' parameters never supply it): the resolver's first Blob Store
\* call is the existence check of that location, trimmed, or the check for
\* the squash-empty object when the trimmed location is empty.
C16_LastDeclaredPath ==
    (sent # <<>> /\ job.previous = <<>>) =>
        LET trimmed == LStrip(Strip(LastDeclaredPathValue), {"."})
        IN  /\ swiftCalls # <<>>
            /\ IF trimmed # <<>>
               THEN /\ swiftCalls[1][1] = "path_exists"
                    /\ swiftCalls[1][2] = trimmed
               ELSE /\ swiftCalls[1][1] = "obj_exists"
                    /\ swiftCalls[1][2] = SquashEmptyFile

\* C17: a submission sends exactly one 'coordinate' envelope: its source
\* path is the input location the resolution returned, with storage kind
\* 'swift'; its target path is the Job's own output path with createDir
\* true; its command is '<execshell> <selfpath>/<selfexec> <arguments
\* joined by single spaces>'; its worker count, cpu, memory and gpu limits
\* are the Job's values as text.
C17_Envelope ==
    [][sent' # sent =>
        /\ sent = <<>>
        /\ Len(sent') = 1
        /\ LET e == sent'[1]
               plugin == job.plugin
               args == AppArgs(job, params).app_args
           IN  /\ e.action = "coordinate"
               /\ \E failing \in SUBSET SwiftOps :
                    LET r == ResolveInputdir(job, params, swift, failing)
                    IN  /\ r.calls = swiftCalls'
                        /\ r.store = swift'
                        /\ e.meta_data.localSource.path = r.inputdir
               /\ e.meta_data.localSource.storageType = "swift"
               /\ e.meta_data.localTarget.path = get_output_path(job)
               /\ e.meta_data.localTarget.createDir = TRUE
               /\ e.meta_compute.cmd =
                    plugin.execshell \o <<" ">> \o plugin.selfpath \o <<"/">>
                    \o plugin.selfexec \o <<" ">>
                    \o StrJoin(<<" ">>, [i \in 1..Len(args) |-> PyStr(args[i])])
               /\ job.number_of_workers = 1
               /\ e.meta_compute.number_of_workers = <<"1">>
               /\ job.cpu_limit = 1000
               /\ e.meta_compute.cpu_limit = <<"1", "0", "0", "0">>
               /\ job.memory_limit = 200
               /\ e.meta_compute.memory_limit = <<"2", "0", "0">>
               /\ job.gpu_limit = 0
               /\ e.meta_compute.gpu_limit = <<"0">>]_vars

\* C17 witness: a downstream 'ds' Job was submitted with two parameters;
\* the envelope's source is the previous Job's output path and its target
\* the Job's own.
C17_Witness ==
    /\ Len(sent) = 1
    /\ job = J_down2
    /\ Len(params) = 2
    /\ sent[1].meta_data.localSource.path = get_output_path(J_down)
    /\ sent[1].meta_data.localTarget.path = get_output_path(J_down2)
    /\ sent[1].meta_data.localTarget.path # sent[1].meta_data.localSource.path

\* the job identifier 'chris-jid-N' of the Job, written out
ExpectedJid ==
    CASE job.id = 42 -> <<"c", "h", "r", "i", "s", "-", "j", "i", "d", "-", "4", "2">>
      [] job.id = 43 -> <<"c", "h", "r", "i", "s", "-", "j", "i", "d", "-", "4", "3">>
      [] job.id = 107 -> <<"c", "h", "r", "i", "s", "-", "j", "i", "d", "-", "1", "0", "7">>

\* C18: the job identifier of the Job with id N is 'chris-jid-N', and it is
\* the jid of the submission envelope, the key of every status query and
\* the value of every diagnostic search query sent for the Job.
C18_JobIdentifier ==
    /\ job.id \in {42, 43, 107}
    /\ \A i \in 1..Len(sent) : sent[i].meta_compute.jid = ExpectedJid
    /\ \A w \in Workers :
          msg[w].action = "status" => msg[w].meta.remote.key = ExpectedJid
    /\ \A i \in 1..Len(errMsgs) :
          errMsgs[i].meta.key = "jid" /\ errMsgs[i].meta.value = ExpectedJid

\* C18 witness: the Job with id 107 was submitted, a status query was sent
\* for it and both diagnostic queries were sent.
C18_Witness ==
    /\ job.id = 107
    /\ Len(sent) = 1
    /\ msg["w1"].action = "status"
    /\ pc["w1"] = "done"
    /\ Len(errMsgs) = 2

\* the normalized status string of each status response, written out:
\* '<phase>:<status>;' for pushPath, compute.submit, compute.return,
\* pullPath, swiftPut, each status as text without any whitespace
ExpectedNormalized(r) ==
    CASE r = R_running ->
            <<"p", "u", "s", "h", "P", "a", "t", "h", ":", "T", "r", "u",
              "e", ";", "c", "o", "m", "p", "u", "t", "e", ".", "s", "u",
              "b", "m", "i", "t", ":", "T", "r", "u", "e", ";", "c", "o",
              "m", "p", "u", "t", "e", ".", "r", "e", "t", "u", "r", "n",
              ":", "s", "t", "a", "r", "t", "e", "d", ";", "p", "u", "l",
              "l", "P", "a", "t", "h", ":", "F", "a", "l", "s", "e", ";",
              "s", "w", "i", "f", "t", "P", "u", "t", ":", "F", "a", "l",
              "s", "e", ";">>
      [] r = R_error ->
            <<"p", "u", "s", "h", "P", "a", "t", "h", ":", "T", "r", "u",
              "e", ";", "c", "o", "m", "p", "u", "t", "e", ".", "s", "u",
              "b", "m", "i", "t", ":", "T", "r", "u", "e", ";", "c", "o",
              "m", "p", "u", "t", "e", ".", "r", "e", "t", "u", "r", "n",
              ":", "f", "i", "n", "i", "s", "h", "e", "d", "W", "i", "t",
              "h", "E", "r", "r", "o", "r", ";", "p", "u", "l", "l", "P",
              "a", "t", "h", ":", "F", "a", "l", "s", "e", ";", "s", "w",
              "i", "f", "t", "P", "u", "t", ":", "F", "a", "l", "s", "e",
              ";">>
      [] r = R_errorPut ->
            <<"p", "u", "s", "h", "P", "a", "t", "h", ":", "T", "r", "u",
              "e", ";", "c", "o", "m", "p", "u", "t", "e", ".", "s", "u",
              "b", "m", "i", "t", ":", "T", "r", "u", "e", ";", "c", "o",
              "m", "p", "u", "t", "e", ".", "r", "e", "t", "u", "r", "n",
              ":", "f", "i", "n", "i", "s", "h", "e", "d", "W", "i", "t",
              "h", "E", "r", "r", "o", "r", ";", "p", "u", "l", "l", "P",
              "a", "t", "h", ":", "T", "r", "u", "e", ";", "s", "w", "i",
              "f", "t", "P", "u", "t", ":", "T", "r", "u", "e", ";">>
      [] r = R_spaced ->
            <<"p", "u", "s", "h", "P", "a", "t", "h", ":", "T", "r", "u",
              "e", ";", "c", "o", "m", "p", "u", "t", "e", ".", "s", "u",
              "b", "m", "i", "t", ":", "T", "r", "u", "e", ";", "c", "o",
              "m", "p", "u", "t", "e", ".", "r", "e", "t", "u", "r", "n",
              ":", "f", "i", "n", "i", "s", "h", "e", "d", "S", "u", "c",
              "c", "e", "s", "s", "f", "u", "l", "l", "y", ";", "p", "u",
              "l", "l", "P", "a", "t", "h", ":", "T", "r", "u", "e", ";",
              "s", "w", "i", "f", "t", "P", "u", "t", ":", "T", "r", "u",
              "e", ";">>
      [] r = R_embedded ->
            <<"p", "u", "s", "h", "P", "a", "t", "h", ":", "T", "r", "u",
              "e", ";", "c", "o", "m", "p", "u", "t", "e", ".", "s", "u",
              "b", "m", "i", "t", ":", "T", "r", "u", "e", ";", "c", "o",
              "m", "p", "u", "t", "e", ".", "r", "e", "t", "u", "r", "n",
              ":", "f", "i", "n", "i", "s", "h", "e", "d", "W", "i", "t",
              "h", "E", "r", "r", "o", "r", ";", "p", "u", "l", "l", "P",
              "a", "t", "h", ":", "F", "a", "l", "s", "e", ";", "s", "w",
              "i", "f", "t", "P", "u", "t", ":", "F", "a", "l", "s", "e",
              ";">>
      [] r = R_success ->
            <<"p", "u", "s", "h", "P", "a", "t", "h", ":", "T", "r", "u",
              "e", ";", "c", "o", "m", "p", "u", "t", "e", ".", "s", "u",
              "b", "m", "i", "t", ":", "T", "r", "u", "e", ";", "c", "o",
              "m", "p", "u", "t", "e", ".", "r", "e", "t", "u", "r", "n",
              ":", "f", "i", "n", "i", "s", "h", "e", "d", "S", "u", "c",
              "c", "e", "s", "s", "f", "u", "l", "l", "y", ";", "p", "u",
              "l", "l", "P", "a", "t", "h", ":", "T", "r", "u", "e", ";",
              "s", "w", "i", "f", "t", "P", "u", "t", ":", "T", "r", "u",
              "e", ";">>

\* C19: for a status response that carries all five phase statuses, the
\* normalized status string the reconciliation works with is the
\* concatenation, in the order pushPath, compute.submit, compute.return,
\* pullPath, swiftPut, of the tokens '<phase>:<status>;' with each status
\* rendered as text and all its whitespace removed.
C19_NormalizedStatus ==
    \A w \in Workers :
        (pc[w] \in {"register", "save", "errcheck", "done"} /\ resp[w].isDict)
            => respStatus[w] = ExpectedNormalized(resp[w])

\* C19 witness: a reconciliation has normalized a response whose
\* compute-return status has whitespace inside the text.
C19_Witness ==
    \E w \in Workers :
        /\ pc[w] = "errcheck"
        /\ resp[w] = R_embedded
        /\ Contains(respStatus[w],
                    S_compute \o <<".">> \o S_return \o <<":">>
                        \o S_finishedWithError \o <<";">>)

\* the positions of the log entries of one Blob Store call or write
ZipEvents(op) == {k \in 1..Len(zipLog) : zipLog[k][1] = op}

\* C20: a listing failure for one prefix does not abort the build of the
\* archive: the build goes on with the next prefix (or ends normally after
\* the last one), nothing is written for the prefix whose listing failed,
\* every object that was downloaded is in the archive under its key with
\* its contents, and when the build has ended every object under a prefix
\* that was listed has been fetched.
C20_ListingFailureSkipped ==
    zipState \in {"done", "raised"} =>
        /\ \A k \in ZipEvents("ls") :
              zipLog[k][4] = "error" =>
                /\ \A j \in ZipEvents("writestr") : zipLog[j][2] # zipLog[k][2]
                /\ \A j \in ZipEvents("download_obj") : zipLog[j][2] # zipLog[k][2]
                /\ IF zipLog[k][2] < Len(zipPaths)
                   THEN /\ k < Len(zipLog)
                        /\ zipLog[k + 1][1] = "ls"
                        /\ zipLog[k + 1][2] = zipLog[k][2] + 1
                   ELSE k = Len(zipLog) /\ zipState = "done"
        /\ \A k \in ZipEvents("download_obj") :
              zipLog[k][4] = "ok" =>
                \E e \in 1..Len(zipEntries) :
                    /\ zipEntries[e].name = zipLog[k][3]
                    /\ SwiftObject(zipEntries[e].name, zipEntries[e].contents) \in swift
        /\ zipState = "done" =>
              \A k \in ZipEvents("ls") :
                zipLog[k][4] = "ok" =>
                    \A o \in swift :
                        StartsWith(o.name, zipLog[k][3]) =>
                            \E j \in ZipEvents("download_obj") :
                                zipLog[j][2] = zipLog[k][2] /\ zipLog[j][3] = o.name

\* C20 witness: the archive of the prefixes 'a/', 'b/' was built, the
\* listing of 'b/' failed, and the archive holds the two objects of 'a/'.
C20_Witness ==
    /\ zipState = "done"
    /\ zipPaths = <<S_a_dir, S_b_dir>>
    /\ swift = ZipStore
    /\ \E k \in ZipEvents("ls") : zipLog[k] = <<"ls", 2, S_b_dir, "error">>
    /\ zipEntries = <<[name |-> S_a_1, contents |-> <<"x">>],
                      [name |-> S_a_2, contents |-> <<"y">>]>>

\* the downloads of the build that succeeded, in order
OkDownloads ==
    SelectSeq(zipLog, LAMBDA e : e[1] = "download_obj" /\ e[4] = "ok")

\* C21: a download failure for one object is skipped: the build does not
\* abort, the archive has exactly one entry per successful download, under
\* the object's key and with that object's own contents, and nothing is
\* written for an object whose download failed.
C21_DownloadFailureSkipped ==
    zipState \in {"done", "raised"} =>
        /\ zipState = "done"
        /\ Len(zipEntries) = Len(OkDownloads)
        /\ \A k \in 1..Len(zipEntries) :
              k <= Len(OkDownloads) =>
                /\ zipEntries[k].name = OkDownloads[k][3]
                /\ SwiftObject(zipEntries[k].name, zipEntries[k].contents) \in swift
        /\ \A k \in ZipEvents("download_obj") :
              zipLog[k][4] = "error" =>
                \A j \in ZipEvents("writestr") :
                    ~(zipLog[j][2] = zipLog[k][2] /\ zipLog[j][3] = zipLog[k][3])

\* C22: a build that ran to its end returns the local path of the archive,
\* '<data dir>/<job identifier>.zip', whatever listings or downloads failed.
C22_ReturnsArchivePath ==
    zipState = "done" =>
        /\ zipReturn.t = "str"
        /\ zipReturn.s = S_home \o <<"/">> \o S_data \o <<"/">> \o ExpectedJid \o S_zip

\* the diagnostic query for one field of the Job, written out
ExpectedSearch(field) ==
    [action |-> "search",
     meta |-> [key |-> "jid", value |-> ExpectedJid, job |-> "0",
               when |-> "end", field |-> field]]

\* C23: the Error Collector issues exactly two 'search' queries keyed by
\* the Job's identifier, first for the field 'stderr' and then for the
\* field 'returncode', each for job occurrence "0" at "end", and leaves the
\* Job record (status, summary, raw, end_date) as it was.
C23_ErrorCollectorQueries ==
    [][errMsgs' # errMsgs =>
        /\ errMsgs' = <<ExpectedSearch("stderr"), ExpectedSearch("returncode")>>
        /\ db' = db]_vars

\* the last leaf of each search response's own result structure, as the
\* text 'key : value', written out; '' when the structure has no leaf
ExpectedLeaf(r) ==
    CASE r = D_stderr -> <<"s", "t", "d", "e", "r", "r", " ", ":", " ", "b", "o", "o", "m">>
      [] r = D_returncode -> <<"r", "e", "t", "u", "r", "n", "c", "o", "d", "e", " ", ":", " ", "1">>
      [] r = D_mixed -> <<"r", "e", "t", "u", "r", "n", "c", "o", "d", "e", " ", ":", " ", "1">>
      [] r = D_empty -> <<>>

\* C30: the value the Error Collector logs for each of its two responses
\* is the last leaf found in the descent of that response's own result
\* structure; the value logged for the 'returncode' response is never a
\* leaf of the 'stderr' response, also when the 'returncode' structure has
\* no leaf.
C30_LeafOfOwnResponse ==
    \A i \in 1..Len(errLog) : errLog[i] = ExpectedLeaf(errResps[i])

\* C24: when the remote service reports store-put success for a started
\* Job and reconciliation keeps being re-invoked, the Job eventually has
\* status finishedSuccessfully and an end_date; from then on no
\* reconciliation changes either.
C24_SuccessEventually ==
    /\ (PutTrue(remote) /\ db.status = "started")
            ~> (db.status = "finishedSuccessfully" /\ db.end_date # {})
    /\ [][db.status = "finishedSuccessfully" =>
            /\ db'.status = db.status
            /\ db'.end_date = db.end_date]_vars

\* C24 witness: the remote service reports store-put success and a
\* re-invoked reconciliation has ended with the Job finished.
C24_Witness ==
    /\ PutTrue(remote)
    /\ pc["w1"] = "done"
    /\ resp["w1"] = remote
    /\ db.status = "finishedSuccessfully"
    /\ db.end_date # {}
    /\ Len(registered) = 1
    /\ ~cancelSeen

\* C25: the whole-record save a reconciliation performs while persisting
\* summary and raw never replaces a terminal status stored by another actor
\* and never clears a stored end_date.
C25_StaleSaveKeepsTerminal ==
    [][\A w \in Workers :
        (pc[w] = "serialize" /\ pc'[w] # "serialize") =>
            /\ db.status \in TerminalStatus => db'.status = db.status
            /\ db.end_date # {} => db'.end_date = db.end_date]_vars

\* C26: the input location of a submission envelope is never the empty
\* string.
C26_InputLocationNonEmpty ==
    \A i \in 1..Len(sent) : sent[i].meta_data.localSource.path # <<>>

\* the response reports the store-put phase as True, as value or as text
PutReportedTrue(r) ==
    /\ r.isDict
    /\ RemoveWhitespace(PyStr(r.jobOperationSummary.swiftPut.status)) = S_True

\* C27: a reconciliation whose response does not report the store-put
\* phase as True changes neither the Job's status nor its end_date and does
\* not invoke output-file registration.
C27_ChangesOnlyOnStorePut ==
    [][\A w \in Workers :
        (/\ pc[w] \in {"serialize", "register", "save", "errcheck"}
         /\ pc'[w] # pc[w]
         /\ ~PutReportedTrue(resp[w]))
        => /\ db'.status = db.status
           /\ db'.end_date = db.end_date
           /\ registered' = registered]_vars

\* C28: output-file registration is invoked before the status is set: a
\* registration that fails leaves the Job's status and end_date as they
\* were; the status is set only by a task whose registration call has
\* completed, so a Job is never finishedSuccessfully without a completed
\* registration; and a later reconciliation that sees store-put success on
\* a Job it loaded as not finishedSuccessfully invokes registration again.
C28_RegistrationBeforeStatus ==
    /\ [][\A w \in Workers :
            (pc[w] = "register" /\ pc'[w] = "raised") =>
                /\ db' = db
                /\ inst'[w].status = inst[w].status
                /\ inst'[w].status # "finishedSuccessfully"
                /\ inst'[w].end_date = inst[w].end_date
                /\ endWrites' = endWrites]_vars
    /\ [](\A w \in Workers :
            pc[w] = "save" =>
                \E i \in 1..Len(registered) :
                    registered[i] = resp[w].jobOperation.info.swiftPut)
    /\ [](db.status = "finishedSuccessfully" => Len(registered) >= 1)
    /\ [][\A w \in Workers :
            (/\ pc[w] = "serialize" /\ pc'[w] # "serialize"
             /\ PutTrue(resp[w])
             /\ inst[w].status # "finishedSuccessfully")
            => pc'[w] = "register"]_vars

\* C28 witness: the registration of one reconciliation failed, leaving the
\* Job started with no end_date, and a later reconciliation that saw
\* store-put success has completed the registration and is about to set
\* the status.
C28_Witness ==
    \E w, v \in Workers :
        /\ runs >= 2
        /\ pc[w] = "raised"
        /\ PutTrue(resp[w])
        /\ pc[v] = "save"
        /\ db.status = "started"
        /\ db.end_date = {}
        /\ Len(registered) = 1

\* C29: when the status query is answered with a text instead of a status
\* object, the reconciliation call ends by raising and no step of it
\* changes the Job record (status, summary, raw, end_date) or invokes
\* output-file registration; no call goes past the parsing of such a
\* response.
C29_TransportFailureLeavesRecord ==
    /\ [][\A w \in Workers :
            (/\ pc[w] \in {"call", "serialize"}
             /\ pc'[w] # pc[w]
             /\ ~resp'[w].isDict)
            => /\ db' = db
               /\ registered' = registered
               /\ endWrites' = endWrites
               /\ pc[w] = "serialize" => pc'[w] = "raised"]_vars
    /\ [](\A w \in Workers :
            pc[w] \in {"register", "save", "errcheck", "done"} => resp[w].isDict)

\* C29 witness: the first reconciliation of the Job was answered
\* 'Connection refused' and has raised; the record is the one it loaded.
C29_Witness ==
    \E w \in Workers :
        /\ runs = 1
        /\ pc[w] = "raised"
        /\ resp[w] = RefusedResponse
        /\ db = NewInstance
        /\ registered = <<>>

====
